---- MODULE Spec2Model ----
(***************************************************************************)
(* Model of src/src/MPC.cpp: the evaluator FG_eval::operator() (objective  *)
(* and constraint rows of the receding-horizon problem) and MPC::Solve     *)
(* (problem assembly, the call of the NLP solver, the returned vector).    *)
(*                                                                         *)
(* Numbers.  A double is modelled as a fixed-point integer counting        *)
(* 1/SCALE units, products and quotients rounding toward zero.  The        *)
(* variable bounds of Solve are kept as the decimal literals the code      *)
(* writes (m * 10^e), since 1.0e19 is not a fixed-point value; LeqLit and  *)
(* GeqLit compare a fixed-point value with such a literal exactly.         *)
(* Vectors are functions on 0..n-1, so indices are those of the source.    *)
(***************************************************************************)
EXTENDS Integers, Sequences, FiniteSets, TLC

VARIABLES
    state,                   \* Solve argument `state` of the latest call
    coeffs,                  \* Solve argument `coeffs` of the latest call
    vars,                    \* Solve local: initial value of the variables
    vars_lowerbound,         \* Solve local
    vars_upperbound,         \* Solve local
    constraints_lowerbound,  \* Solve local
    constraints_upperbound,  \* Solve local
    fg_coeffs,               \* fg_eval.coeffs of the latest call
    solution,                \* Solve local: solve_result {status, x, obj_value}
    ok,                      \* Solve local flag
    solver_called,           \* whether the latest call reached ipopt::solve
    prev_status,             \* solution.status of the call before the latest
    cout,                    \* the cost printed to std::cout
    ret,                     \* the vector Solve returned to its caller
    outcome,                 \* "none" | "returned" | "aborted"
    evpc,                    \* evaluator run: "input" | "done"
    ev_coeffs,               \* evaluator run: the four coefficients read
    ev_vars,                 \* evaluator run: argument `vars`
    fg                       \* evaluator run: output `fg`

solveVars == <<state, coeffs, vars, vars_lowerbound, vars_upperbound,
               constraints_lowerbound, constraints_upperbound, fg_coeffs,
               solution, ok, solver_called, prev_status, cout, ret, outcome>>
evalVars == <<evpc, ev_coeffs, ev_vars, fg>>
allVars == <<solveVars, evalVars>>

(***************************************************************************)
(* Fixed-point arithmetic standing for double / AD<double>.                *)
(***************************************************************************)
SCALE == 100

Abs(a) == IF a < 0 THEN -a ELSE a
Sgn(a) == IF a < 0 THEN -1 ELSE IF a > 0 THEN 1 ELSE 0

\* a / b on integers, rounding toward zero
Quot(a, b) == Sgn(a) * Sgn(b) * (Abs(a) \div Abs(b))

\* operator* and operator/ of two doubles
Mul(a, b) == Quot(a * b, SCALE)
Div(a, b) == Quot(a * SCALE, b)

\* CppAD::pow(a, 2)
Pow2(a) == Mul(a, a)

\* CppAD::sin, CppAD::cos: Taylor approximants, exact at 0
Sin(a) == a - Quot(Mul(Mul(a, a), a), 6)
Cos(a) == SCALE - Quot(Mul(a, a), 2) + Quot(Mul(Mul(a, a), Mul(a, a)), 24)

\* CppAD::atan: a / (1 + 0.28 a^2) on [-1, 1], pi/2 - atan(1/a) outside
AtanUnit(a) == Div(a, SCALE + Mul(28, Mul(a, a)))
Atan(a) == IF Abs(a) <= SCALE THEN AtanUnit(a)
           ELSE Sgn(a) * 157 - AtanUnit(Div(SCALE, a))

(***************************************************************************)
(* Decimal literals m * 10^e, as written in the variable bounds.           *)
(***************************************************************************)
Lit(m, e) == [m |-> m, e |-> e]

RECURSIVE Pow10(_)
Pow10(k) == IF k = 0 THEN 1 ELSE 10 * Pow10(k - 1)

\* x / SCALE <= b.m * 10^(b.e), for any fixed-point x (|x| < 2^31)
LeqLit(x, b) ==
    IF b.e >= 8 THEN b.m > 0
    ELSE IF b.e >= 0 THEN x <= b.m * Pow10(b.e) * SCALE
    ELSE x <= (b.m * SCALE) \div Pow10(-b.e)

GeqLit(x, b) == LeqLit(-x, Lit(-b.m, b.e))

(***************************************************************************)
(* Vectors.                                                                *)
(***************************************************************************)
Vector(s) == [i \in 0..(Len(s) - 1) |-> s[i + 1]]
Size(v) == Cardinality(DOMAIN v)
Empty == [i \in {} |-> 0]

RECURSIVE SumRange(_, _, _)
SumRange(lo, hi, f) == IF lo > hi THEN 0 ELSE f[lo] + SumRange(lo + 1, hi, f)

RECURSIVE Flatten(_, _, _)
Flatten(lo, hi, f) == IF lo > hi THEN <<>> ELSE f[lo] \o Flatten(lo + 1, hi, f)

\* the writes of ws (pairs <<index, value>>) to index i, in program order
WritesTo(ws, i) == SelectSeq(ws, LAMBDA w : w[1] = i)

\* an array of n slots holding `fill`, after the writes ws in order
Written(n, fill, ws) ==
    [i \in 0..(n - 1) |->
        LET w == WritesTo(ws, i) IN IF w = <<>> THEN fill ELSE w[Len(w)][2]]

(***************************************************************************)
(* Process-wide constants and the layout of the decision vector (MPC.h).   *)
(***************************************************************************)
HorizonBound == 3

N == HorizonBound
dt == 10
Lf == 267
ref_v == 4000

x_start == 0
y_start == x_start + N
psi_start == y_start + N
v_start == psi_start + N
cte_start == v_start + N
epsi_start == cte_start + N
delta_start == epsi_start + N
a_start == delta_start + N - 1

\* the start offset and the number of slots of each channel
Start == [x |-> x_start, y |-> y_start, psi |-> psi_start, v |-> v_start,
          cte |-> cte_start, epsi |-> epsi_start,
          delta |-> delta_start, a |-> a_start]
Slots == [x |-> N, y |-> N, psi |-> N, v |-> N, cte |-> N, epsi |-> N,
          delta |-> N - 1, a |-> N - 1]
StateChannels == <<"x", "y", "psi", "v", "cte", "epsi">>

\* MPC::Solve: sizes of the problem
n_vars == N * 6 + (N - 1) * 2
n_constraints == N * 6

(***************************************************************************)
(* FG_eval::operator()(fg, vars).                                          *)
(* An access vars[<ch>_start + k] is the pair Ref(ch, k); Idx gives the    *)
(* index it reads.                                                         *)
(***************************************************************************)
Ref(ch, k) == [ch |-> ch, k |-> k]
Idx(r) == Start[r.ch] + r.k

\* vars[i]; the second branch is a read outside the vector, which
\* C10_IndexSafety shows the evaluator never makes
At(v, i) == IF i \in DOMAIN v THEN v[i] ELSE 0

Range(lo, hi) == [k \in 1..(hi - lo + 1) |-> lo + k - 1]

\* variants: the speed loop from t = 0; the rate loop up to t = N - 2
SpeedSteps_from0 == Range(0, N - 1)
RateSteps_toN2 == Range(0, N - 2)

\* the values of t of the five loops
TrackSteps == Range(0, N - 1)
SpeedSteps == Range(1, N - 1)
ActSteps == Range(0, N - 2)
RateSteps == Range(0, N - 3)
DynSteps == Range(1, N - 1)

\* a cost term  w * pow(vars[p] - m, 2), m being vars[q], a constant or absent
Term(w, p) == [w |-> w, p |-> p, kind |-> "plain", q |-> p, c |-> 0]
TermRef(w, p, c) == [w |-> w, p |-> p, kind |-> "ref", q |-> p, c |-> c]
TermDiff(w, p, q) == [w |-> w, p |-> p, kind |-> "diff", q |-> q, c |-> 0]

\* variant: the speed term without the reference speed
SpeedTerms_noRef(t) == << Term(10, Ref("v", t)) >>

TrackTerms(t) == << Term(1000, Ref("cte", t)), Term(1000, Ref("epsi", t)) >>
SpeedTerms(t) == << TermRef(10, Ref("v", t), ref_v) >>
ActTerms(t) == << Term(3, Ref("delta", t)), Term(3, Ref("a", t)) >>
RateTerms(t) == << TermDiff(1000, Ref("delta", t + 1), Ref("delta", t)),
                   TermDiff(1, Ref("a", t + 1), Ref("a", t)) >>

\* the terms added to `cost`, in program order
CostTerms ==
    Flatten(1, Len(TrackSteps), [k \in DOMAIN TrackSteps |-> TrackTerms(TrackSteps[k])])
    \o Flatten(1, Len(SpeedSteps), [k \in DOMAIN SpeedSteps |-> SpeedTerms(SpeedSteps[k])])
    \o Flatten(1, Len(ActSteps), [k \in DOMAIN ActSteps |-> ActTerms(ActSteps[k])])
    \o Flatten(1, Len(RateSteps), [k \in DOMAIN RateSteps |-> RateTerms(RateSteps[k])])

TermValue(tm, v) ==
    LET p == At(v, Idx(tm.p))
        m == IF tm.kind = "diff" THEN At(v, Idx(tm.q))
             ELSE IF tm.kind = "ref" THEN tm.c ELSE 0
    IN tm.w * Pow2(p - m)

\* the value assigned to fg[0]
Cost(v) == SumRange(1, Len(CostTerms), [k \in DOMAIN CostTerms |-> TermValue(CostTerms[k], v)])

\* fg[1 + <ch>_start] = vars[<ch>_start]
InitRows(v) ==
    [k \in DOMAIN StateChannels |->
        << 1 + Start[StateChannels[k]], At(v, Idx(Ref(StateChannels[k], 0))) >>]

\* variant: the controls taken at step t instead of step t - 1
Prev_controlsNow(t) ==
    [x |-> Ref("x", t - 1), y |-> Ref("y", t - 1), psi |-> Ref("psi", t - 1),
     v |-> Ref("v", t - 1), cte |-> Ref("cte", t - 1), epsi |-> Ref("epsi", t - 1),
     delta |-> Ref("delta", t), a |-> Ref("a", t)]

\* the accesses of one pass of the dynamics loop: step t - 1 and step t
Prev(t) == [x |-> Ref("x", t - 1), y |-> Ref("y", t - 1), psi |-> Ref("psi", t - 1),
            v |-> Ref("v", t - 1), cte |-> Ref("cte", t - 1), epsi |-> Ref("epsi", t - 1),
            delta |-> Ref("delta", t - 1), a |-> Ref("a", t - 1)]
Here(t) == [x |-> Ref("x", t), y |-> Ref("y", t), psi |-> Ref("psi", t),
            v |-> Ref("v", t), cte |-> Ref("cte", t), epsi |-> Ref("epsi", t)]

\* the six rows written by the pass for step t; cf holds coeffs[0..3]
DynRows(cf, vv, t) ==
    LET x0 == At(vv, Idx(Prev(t).x))
        y0 == At(vv, Idx(Prev(t).y))
        psi0 == At(vv, Idx(Prev(t).psi))
        v0 == At(vv, Idx(Prev(t).v))
        cte0 == At(vv, Idx(Prev(t).cte))
        epsi0 == At(vv, Idx(Prev(t).epsi))
        delta0 == At(vv, Idx(Prev(t).delta))
        a0 == At(vv, Idx(Prev(t).a))
        x1 == At(vv, Idx(Here(t).x))
        y1 == At(vv, Idx(Here(t).y))
        psi1 == At(vv, Idx(Here(t).psi))
        v1 == At(vv, Idx(Here(t).v))
        cte1 == At(vv, Idx(Here(t).cte))
        epsi1 == At(vv, Idx(Here(t).epsi))
        f0 == cf[0] + Mul(cf[1], x0) + Mul(Mul(cf[2], x0), x0)
                 + Mul(Mul(Mul(cf[3], x0), x0), x0)
        psides0 == Atan(Mul(Mul(3 * cf[3], x0), x0) + Mul(2 * cf[2], x0) + cf[1])
    IN << << 1 + x_start + t, x1 - (x0 + Mul(Mul(v0, Cos(psi0)), dt)) >>,
          << 1 + y_start + t, y1 - (y0 + Mul(Mul(v0, Sin(psi0)), dt)) >>,
          << 1 + psi_start + t, psi1 - (psi0 + Mul(Mul(Div(v0, Lf), delta0), dt)) >>,
          << 1 + v_start + t, v1 - (v0 + Mul(a0, dt)) >>,
          << 1 + cte_start + t, cte1 - ((f0 - y0) + Mul(Mul(v0, Sin(epsi0)), dt)) >>,
          << 1 + epsi_start + t,
             epsi1 - ((psi0 - psides0) + Mul(Div(Mul(v0, delta0), Lf), dt)) >> >>

\* every assignment to fg of one evaluation, in program order
FgWrites(cf, vv) ==
    << <<0, 0>> >>
    \o << <<0, Cost(vv)>> >>
    \o InitRows(vv)
    \o Flatten(1, Len(DynSteps), [k \in DOMAIN DynSteps |-> DynRows(cf, vv, DynSteps[k])])

\* fg after the evaluation; the solver sizes fg as [objective, constraints]
FG_eval(cf, vv) == Written(1 + n_constraints, 0, FgWrites(cf, vv))

\* every access to vars of one evaluation
EvalRefs ==
    UNION {{CostTerms[k].p, CostTerms[k].q} : k \in DOMAIN CostTerms}
    \cup {Ref(StateChannels[k], 0) : k \in DOMAIN StateChannels}
    \cup UNION {{Prev(DynSteps[k])[f] : f \in DOMAIN Prev(DynSteps[k])}
                \cup {Here(DynSteps[k])[f] : f \in DOMAIN Here(DynSteps[k])}
                : k \in DOMAIN DynSteps}

(***************************************************************************)
(* The kinematic model: the state the formulas predict for the next step   *)
(* from a state s and the controls (delta0, a0); cf holds the four         *)
(* polynomial coefficients.                                                *)
(***************************************************************************)
Predicted(cf, s, delta0, a0) ==
    LET f0 == cf[0] + Mul(cf[1], s.x) + Mul(Mul(cf[2], s.x), s.x)
                 + Mul(Mul(Mul(cf[3], s.x), s.x), s.x)
        psides0 == Atan(Mul(Mul(3 * cf[3], s.x), s.x) + Mul(2 * cf[2], s.x) + cf[1])
    IN [x |-> s.x + Mul(Mul(s.v, Cos(s.psi)), dt),
        y |-> s.y + Mul(Mul(s.v, Sin(s.psi)), dt),
        psi |-> s.psi + Mul(Mul(Div(s.v, Lf), delta0), dt),
        v |-> s.v + Mul(a0, dt),
        cte |-> (f0 - s.y) + Mul(Mul(s.v, Sin(s.epsi)), dt),
        epsi |-> (s.psi - psides0) + Mul(Div(Mul(s.v, delta0), Lf), dt)]

\* the state at step t of the trajectory from st under the controls u
RECURSIVE Traj(_, _, _, _)
Traj(cf, st, u, t) ==
    IF t = 0
    THEN [x |-> st[0], y |-> st[1], psi |-> st[2], v |-> st[3], cte |-> st[4], epsi |-> st[5]]
    ELSE Predicted(cf, Traj(cf, st, u, t - 1), u.delta[t - 1], u.a[t - 1])

ChannelOf(i) == CHOOSE ch \in DOMAIN Start : i \in Start[ch]..(Start[ch] + Slots[ch] - 1)

\* the decision vector of that trajectory and its controls
Rollout(cf, st, u) ==
    [i \in 0..(n_vars - 1) |->
        LET ch == ChannelOf(i)
            t == i - Start[ch]
        IN IF ch \in {"delta", "a"} THEN u[ch][t] ELSE Traj(cf, st, u, t)[ch]]

\* a control plan <<d0, d, a0, a>>: (d0, a0) at step 0, (d, a) afterwards
PlanControls(p) ==
    [delta |-> [t \in 0..(N - 2) |-> IF t = 0 THEN p[1] ELSE p[2]],
     a |-> [t \in 0..(N - 2) |-> IF t = 0 THEN p[3] ELSE p[4]]]

ControlPlans ==
    { <<0, 0, 0, 0>>, <<30, 30, 100, 100>>, <<43, -20, -100, 50>>,
      <<44, 0, 0, 0>>, <<0, 0, 100, 101>>, <<-44, 20, 150, 0>> }

(***************************************************************************)
(* Inputs.                                                                 *)
(***************************************************************************)
EvalStates ==
    { Vector(<<x, -50, psi, 200, 50, -10>>) : x \in {0, 100}, psi \in {0, 20} }
    \cup { Vector(<<0, 0, 0, 0, 0, 0>>), Vector(<<0, 30, 0, 100, 30, 15>>) }

EvalCoeffs == { Vector(c) : c \in { <<0, 0, 0, 0>>, <<-100, 20, 5, -2>>,
                                    <<0, 150, 0, 10>> } }

\* v with d added at index i
Bumped(v, i, d) == [v EXCEPT ![i] = @ + d]

(***************************************************************************)
(* One evaluation of FG_eval on a given decision vector.                   *)
(***************************************************************************)
SolveIdle ==
    /\ state = Empty /\ coeffs = Empty /\ vars = Empty
    /\ vars_lowerbound = Empty /\ vars_upperbound = Empty
    /\ constraints_lowerbound = Empty /\ constraints_upperbound = Empty
    /\ fg_coeffs = Empty
    /\ solution = [status |-> "not_defined", x |-> Empty, obj_value |-> 0]
    /\ ok = TRUE /\ solver_called = FALSE /\ prev_status = "none"
    /\ cout = <<>> /\ ret = Empty /\ outcome = "none"

InitEval ==
    /\ SolveIdle
    /\ evpc = "input"
    /\ fg = Empty
    /\ ev_coeffs \in EvalCoeffs
    /\ \E st \in EvalStates, p \in ControlPlans :
          LET r == Rollout(ev_coeffs, st, PlanControls(p))
          IN ev_vars \in {r} \cup {Bumped(r, i, 1) : i \in DOMAIN r}

Evaluate ==
    /\ evpc = "input"
    /\ fg' = FG_eval(ev_coeffs, ev_vars)
    /\ evpc' = "done"
    /\ UNCHANGED <<solveVars, ev_coeffs, ev_vars>>

NextEval == Evaluate

SpecEval == InitEval /\ [][NextEval]_allVars

(***************************************************************************)
(* MPC::Solve(state, coeffs): assembly of the problem.                     *)
(***************************************************************************)
\* for (i < n) a[i] = 0;  then a[<ch>_start] = state[k] for the six channels
ZeroThenState(n, st) ==
    [k \in DOMAIN Range(0, n - 1) |-> << Range(0, n - 1)[k], 0 >>]
    \o [k \in DOMAIN StateChannels |-> << Start[StateChannels[k]], At(st, k - 1) >>]

\* an unassigned slot of a Dvector of doubles holds -99.99 here
VarsWrites(st) == ZeroThenState(n_vars, st)

\* variant: the initial point is the previous solution when there is one
InitialVars_warm(st) ==
    IF solution.status = "success" THEN solution.x
    ELSE Written(n_vars, -9999, VarsWrites(st))

InitialVars(st) == Written(n_vars, -9999, VarsWrites(st))

\* the index ranges of the three loops over the variable bounds
FreeRange == Range(0, delta_start - 1)
DeltaRange == Range(delta_start, a_start - 1)
AccRange == Range(a_start, n_vars - 1)

BoundWrites(free, steer, acc) ==
    [k \in DOMAIN FreeRange |-> << FreeRange[k], free >>]
    \o [k \in DOMAIN DeltaRange |-> << DeltaRange[k], steer >>]
    \o [k \in DOMAIN AccRange |-> << AccRange[k], acc >>]

\* variant: the steering limit written in degrees
VarsUpperWrites_degrees == BoundWrites(Lit(1, 19), Lit(25, 0), Lit(1, 0))

VarsLowerWrites == BoundWrites(Lit(-1, 19), Lit(-436332, -6), Lit(-1, 0))
VarsUpperWrites == BoundWrites(Lit(1, 19), Lit(436332, -6), Lit(1, 0))

\* an unassigned slot of a bound array holds the literal 0 here
VarsLowerbound == Written(n_vars, Lit(0, 0), VarsLowerWrites)
VarsUpperbound == Written(n_vars, Lit(0, 0), VarsUpperWrites)

\* variant: the upper bounds of the initial-state rows left at zero
ConstraintsUpperWrites_zero(st) == ZeroThenState(n_constraints, [k \in 0..5 |-> 0])

ConstraintsLowerWrites(st) == ZeroThenState(n_constraints, st)
ConstraintsUpperWrites(st) == ZeroThenState(n_constraints, st)
ConstraintsLowerbound(st) == Written(n_constraints, -9999, ConstraintsLowerWrites(st))
ConstraintsUpperbound(st) == Written(n_constraints, -9999, ConstraintsUpperWrites(st))

\* variant: the copy starts at index 1
RetLoop_from1(x) == Range(1, Size(x) - 1)

\* for (i < solution.x.size()) ret.push_back(solution.x[i])
RetLoop(x) == Range(0, Size(x) - 1)
RetCopy(x) == Vector([k \in DOMAIN RetLoop(x) |-> At(x, RetLoop(x)[k])])

(***************************************************************************)
(* CppAD::ipopt::solve, a black box: it returns a status and a point of    *)
(* the size of the initial point xi; with status success the point lies    *)
(* within the variable bounds and the constraint bounds it was given.      *)
(* The points it may return here: xi itself, and the trajectories of the   *)
(* control plans from the start of xi and from the origin.                 *)
(***************************************************************************)
FailureStatuses == {"maxiter_exceeded", "unknown"}

StartOf(xi) == [k \in 0..5 |-> At(xi, Start[StateChannels[k + 1]])]
Origin == [k \in 0..5 |-> 0]

Candidates(xi, cf) ==
    {xi} \cup { Rollout(cf, st, PlanControls(p)) :
                    st \in {StartOf(xi), Origin}, p \in ControlPlans }

WithinBounds(x, xl, xu) ==
    /\ DOMAIN xl = DOMAIN x /\ DOMAIN xu = DOMAIN x
    /\ \A i \in DOMAIN x : GeqLit(x[i], xl[i]) /\ LeqLit(x[i], xu[i])

WithinConstraints(x, gl, gu, cf) ==
    LET g == FG_eval(cf, x)
    IN /\ DOMAIN gu = DOMAIN gl
       /\ \A j \in DOMAIN gl : gl[j] <= g[1 + j] /\ g[1 + j] <= gu[j]

IpoptSolve(xi, xl, xu, gl, gu, cf) ==
    LET result(s, x) == [status |-> s, x |-> x, obj_value |-> FG_eval(cf, x)[0]]
    IN { result("success", x) :
            x \in { c \in Candidates(xi, cf) :
                      WithinBounds(c, xl, xu) /\ WithinConstraints(c, gl, gu, cf) } }
       \cup { result(s, x) : s \in FailureStatuses, x \in Candidates(xi, cf) }

(***************************************************************************)
(* MPC::Solve(state, coeffs): one whole call.                              *)
(* The evaluator reads coeffs[0..3] whatever the size of coeffs: with      *)
(* fewer than four entries the read is outside the Eigen vector, which     *)
(* either trips Eigen's index assertion (the process aborts) or yields     *)
(* whatever lies behind the buffer (`beyond`).                             *)
(***************************************************************************)
CoeffsRead(cf, beyond) == [i \in 0..3 |-> IF i \in DOMAIN cf THEN cf[i] ELSE beyond]
Beyond(cf) == IF Size(cf) < 4 THEN {0, 35} ELSE {0}

Assembled(st, cf) ==
    [state |-> st, coeffs |-> cf,
     vars |-> InitialVars(st),
     vars_lowerbound |-> VarsLowerbound,
     vars_upperbound |-> VarsUpperbound,
     constraints_lowerbound |-> ConstraintsLowerbound(st),
     constraints_upperbound |-> ConstraintsUpperbound(st),
     fg_coeffs |-> cf]

Returned(st, cf) ==
    LET p == Assembled(st, cf)
    IN { [problem |-> p, solution |-> sol,
          ok |-> (TRUE /\ sol.status = "success"),
          cout |-> << "Cost ", sol.obj_value >>,
          ret |-> RetCopy(sol.x),
          outcome |-> "returned"] :
            sol \in UNION { IpoptSolve(p.vars, p.vars_lowerbound, p.vars_upperbound,
                                       p.constraints_lowerbound, p.constraints_upperbound,
                                       CoeffsRead(cf, b)) : b \in Beyond(cf) } }

Aborted(st, cf) ==
    IF Size(cf) < 4
    THEN { [problem |-> Assembled(st, cf),
            solution |-> [status |-> "not_defined", x |-> Empty, obj_value |-> 0],
            ok |-> TRUE, cout |-> <<>>, ret |-> Empty, outcome |-> "aborted"] }
    ELSE {}

SolveStates ==
    { Vector(s) : s \in { <<0, 0, 0, 0, 0, 0>>, <<100, -50, 20, 200, 50, -10>>,
                          <<0, 0, 0, 200, 0, 0>>, <<0, 30, 0, 0, 30, 0>> } }

SolveCoeffs ==
    { Vector(c) : c \in { <<0, 0, 0, 0>>, <<-100, 20, 5, -2>>,
                          <<50, 10, 0>>, <<0, 0, 0, 0, 9>> } }

Runs(st, cf) == Returned(st, cf) \cup Aborted(st, cf)
AllRuns == UNION { Runs(st, cf) : st \in SolveStates, cf \in SolveCoeffs }

Init ==
    /\ SolveIdle
    /\ evpc = "idle" /\ ev_coeffs = Empty /\ ev_vars = Empty /\ fg = Empty

Solve ==
    /\ outcome # "aborted"
    /\ \E r \in AllRuns :
            /\ state' = r.problem.state
            /\ coeffs' = r.problem.coeffs
            /\ vars' = r.problem.vars
            /\ vars_lowerbound' = r.problem.vars_lowerbound
            /\ vars_upperbound' = r.problem.vars_upperbound
            /\ constraints_lowerbound' = r.problem.constraints_lowerbound
            /\ constraints_upperbound' = r.problem.constraints_upperbound
            /\ fg_coeffs' = r.problem.fg_coeffs
            /\ solution' = r.solution
            /\ ok' = r.ok
            /\ solver_called' = TRUE
            /\ prev_status' = IF outcome = "none" THEN "none" ELSE solution.status
            /\ cout' = r.cout
            /\ ret' = r.ret
            /\ outcome' = r.outcome
    /\ UNCHANGED evalVars

Next == Solve

Spec == Init /\ [][Next]_allVars

(***************************************************************************)
(* Properties of MPC::Solve, checked under Spec.                           *)
(***************************************************************************)
Called == outcome # "none"
Success == outcome = "returned" /\ solution.status = "success"
IllFormed(cf) == Size(cf) # 4 \/ N < 3 \/ Lf = 0
StateSlots == { Start[StateChannels[k]] : k \in DOMAIN StateChannels }
DecisionLength == N * 6 + (N - 1) * 2

\* C1: a solver status other than success reaches the caller: whenever two
\* calls hand back the same vector, either both solves succeeded or neither
\* did, so the returned value tells a failed solve from a successful one.
C1_StatusReported ==
    [][ (outcome = "returned" /\ outcome' = "returned" /\ ret' = ret)
          => ((solution'.status = "success") <=> (solution.status = "success")) ]_allVars

\* C2: a call with ill-formed input (coefficient list not of length 4,
\* N < 3, Lf = 0) ends in an error outcome without the solver being
\* invoked, and returns no solution.
C2_FailFast ==
    (Called /\ IllFormed(coeffs))
        => (~solver_called /\ outcome = "error" /\ ret = Empty)

\* C3: the variable-bound arrays have the length and order of the decision
\* vector, every index is assigned exactly once, with [-1e19, 1e19] on the
\* state slots, [-0.436332, 0.436332] on the N-1 steering slots and [-1, 1]
\* on the N-1 acceleration slots; after a successful solve every returned
\* delta_t and a_t lies within its pair.
C3_VariableBounds ==
    Called =>
        /\ DOMAIN vars = 0..(DecisionLength - 1)
        /\ DOMAIN vars_lowerbound = DOMAIN vars
        /\ DOMAIN vars_upperbound = DOMAIN vars
        /\ \A i \in DOMAIN vars :
              /\ Len(WritesTo(VarsLowerWrites, i)) = 1
              /\ Len(WritesTo(VarsUpperWrites, i)) = 1
              /\ << vars_lowerbound[i], vars_upperbound[i] >> =
                    IF ChannelOf(i) = "delta" THEN << Lit(-436332, -6), Lit(436332, -6) >>
                    ELSE IF ChannelOf(i) = "a" THEN << Lit(-1, 0), Lit(1, 0) >>
                    ELSE << Lit(-1, 19), Lit(1, 19) >>
        /\ Cardinality({ i \in DOMAIN vars : ChannelOf(i) = "delta" }) = N - 1
        /\ Cardinality({ i \in DOMAIN vars : ChannelOf(i) = "a" }) = N - 1
        /\ Success =>
              \A t \in 0..(N - 2) :
                  /\ GeqLit(ret[delta_start + t], Lit(-436332, -6))
                  /\ LeqLit(ret[delta_start + t], Lit(436332, -6))
                  /\ GeqLit(ret[a_start + t], Lit(-1, 0))
                  /\ LeqLit(ret[a_start + t], Lit(1, 0))

\* C3 witness: a successful solve returning a steering value at the last
\* fixed-point value inside the limit and a full acceleration
C3_Witness ==
    Success /\ ret[delta_start] = 43 /\ ret[a_start] = -SCALE

\* the initial-state rows of the evaluator lie within the constraint bounds at x
PinRowsSatisfied(x) ==
    \A k \in DOMAIN StateChannels :
        LET w == InitRows(x)[k]
        IN /\ constraints_lowerbound[w[1] - 1] <= w[2]
           /\ w[2] <= constraints_upperbound[w[1] - 1]

\* C4 as stated: the constraint bounds have length N*6 and are zero except
\* rows 0..5, which carry the six state components on both bounds; a returned
\* point satisfying the constraint bounds has the state as its first six entries.
C4_PinRows0to5 ==
    Called =>
        /\ DOMAIN constraints_lowerbound = 0..(N * 6 - 1)
        /\ DOMAIN constraints_upperbound = 0..(N * 6 - 1)
        /\ \A j \in 0..(N * 6 - 1) :
              /\ constraints_lowerbound[j] = IF j \in 0..5 THEN state[j] ELSE 0
              /\ constraints_upperbound[j] = IF j \in 0..5 THEN state[j] ELSE 0
        /\ (outcome = "returned" /\ PinRowsSatisfied(ret))
              => \A j \in 0..5 : ret[j] = state[j]

\* C4 amended: the constraint bounds have length N*6 and are zero except the
\* six rows x_start, y_start, psi_start, v_start, cte_start, epsi_start (the
\* first row of each state channel), which carry the six state components on
\* both bounds; a returned point satisfying the constraint bounds has the
\* state components at those six offsets.
C4_PinChannelStarts ==
    Called =>
        /\ DOMAIN constraints_lowerbound = 0..(N * 6 - 1)
        /\ DOMAIN constraints_upperbound = 0..(N * 6 - 1)
        /\ \A j \in 0..(N * 6 - 1) :
              /\ j \notin StateSlots
                    => constraints_lowerbound[j] = 0 /\ constraints_upperbound[j] = 0
        /\ \A k \in DOMAIN StateChannels :
              /\ constraints_lowerbound[Start[StateChannels[k]]] = state[k - 1]
              /\ constraints_upperbound[Start[StateChannels[k]]] = state[k - 1]
        /\ (outcome = "returned" /\ PinRowsSatisfied(ret))
              => \A k \in DOMAIN StateChannels :
                    ret[Start[StateChannels[k]]] = state[k - 1]

\* C4 witness: a returned point that satisfies the pin, for a state that is
\* not zero in any component
C4_Witness ==
    /\ outcome = "returned" /\ PinRowsSatisfied(ret)
    /\ \A k \in 0..5 : state[k] # 0
    /\ ret # vars

\* C5: the returned sequence has length N*6 + (N-1)*2 and is the solver's
\* primal solution entry by entry; the entries at the steering and the
\* acceleration start offsets are the controls the dynamics apply at step 0.
C5_ReturnedVector ==
    outcome = "returned" =>
        /\ DOMAIN ret = 0..(DecisionLength - 1)
        /\ \A i \in DOMAIN ret : ret[i] = solution.x[i]
        /\ ret[delta_start] = solution.x[Idx(Prev(1).delta)]
        /\ ret[a_start] = solution.x[Idx(Prev(1).a)]

\* C5 witness: a returned solution whose first command differs from both of
\* its neighbours in the vector
C5_Witness ==
    /\ outcome = "returned"
    /\ ret[delta_start] # ret[delta_start - 1]
    /\ ret[delta_start] # ret[delta_start + 1]
    /\ ret[a_start] # ret[a_start - 1]
    /\ ret[a_start] # ret[a_start + 1]

\* C7: the problem a call assembles depends on that call's inputs only: two
\* successive calls with the same state and coefficients assemble the same
\* initial point, variable bounds, constraint bounds and evaluator
\* coefficients, whatever the earlier call's solver returned.
C7_Independent ==
    [][ (outcome # "none" /\ outcome' # "none" /\ state' = state /\ coeffs' = coeffs)
          => /\ vars' = vars
             /\ vars_lowerbound' = vars_lowerbound
             /\ vars_upperbound' = vars_upperbound
             /\ constraints_lowerbound' = constraints_lowerbound
             /\ constraints_upperbound' = constraints_upperbound
             /\ fg_coeffs' = fg_coeffs ]_allVars

\* C7 witness: a successful solve of a nonzero state right after a call of
\* which the solver failed
C7_Witness ==
    /\ prev_status \in FailureStatuses
    /\ Success
    /\ state # Origin

(***************************************************************************)
(* Properties of FG_eval::operator(), checked under SpecEval.              *)
(***************************************************************************)
Evaluated == evpc = "done"
Chan(v, ch, t) == v[Start[ch] + t]
StateAt(v, t) == [ch \in {"x", "y", "psi", "v", "cte", "epsi"} |-> Chan(v, ch, t)]
ControlsOf(v) == [delta |-> [t \in 0..(N - 2) |-> Chan(v, "delta", t)],
                  a |-> [t \in 0..(N - 2) |-> Chan(v, "a", t)]]
IsRollout(cf, v) == v = Rollout(cf, StartOf(v), ControlsOf(v))
AllZero(v) == \A i \in DOMAIN v : v[i] = 0

\* the rows of fg lie within the constraint bounds Solve builds for state st
RowsWithin(g, st) ==
    \A j \in 0..(N * 6 - 1) :
        /\ ConstraintsLowerbound(st)[j] <= g[1 + j]
        /\ g[1 + j] <= ConstraintsUpperbound(st)[j]

\* C6 as stated: for the zero state and the zero polynomial the all-zero
\* decision vector satisfies every constraint row and has objective 0.
C6_ZeroCost ==
    (Evaluated /\ AllZero(ev_vars) /\ AllZero(ev_coeffs))
        => /\ RowsWithin(fg, Origin)
           /\ WithinBounds(ev_vars, VarsLowerbound, VarsUpperbound)
           /\ fg[0] = 0

\* C6 amended: for the zero state and the zero polynomial the all-zero
\* decision vector satisfies every constraint row within its bounds, and its
\* objective is the speed cost of standing still, (N-1) * 10 * ref_v^2,
\* which is 0 only if ref_v is 0.
C6_ZeroFeasibleSpeedCost ==
    (Evaluated /\ AllZero(ev_vars) /\ AllZero(ev_coeffs))
        => /\ RowsWithin(fg, Origin)
           /\ WithinBounds(ev_vars, VarsLowerbound, VarsUpperbound)
           /\ fg[0] = (N - 1) * 10 * Pow2(ref_v)

\* C6 witness: the evaluator has run on the all-zero vector with zero coefficients
C6_Witness ==
    Evaluated /\ AllZero(ev_vars) /\ AllZero(ev_coeffs) /\ Size(ev_vars) = DecisionLength

\* C8: for every step t in [1, N) and each of the six channels the row of
\* that channel and step holds actual_t minus the value the kinematic
\* formulas predict from the state and controls of step t-1; a vector rolled
\* forward by the formulas from its step-0 state has residual 0 in all
\* 6*(N-1) rows.
C8_Residuals ==
    Evaluated =>
        /\ \A t \in 1..(N - 1) :
              LET pred == Predicted(ev_coeffs, StateAt(ev_vars, t - 1),
                                    Chan(ev_vars, "delta", t - 1), Chan(ev_vars, "a", t - 1))
              IN \A ch \in {"x", "y", "psi", "v", "cte", "epsi"} :
                    fg[1 + Start[ch] + t] = Chan(ev_vars, ch, t) - pred[ch]
        /\ IsRollout(ev_coeffs, ev_vars)
              => \A t \in 1..(N - 1) :
                    \A ch \in {"x", "y", "psi", "v", "cte", "epsi"} :
                        fg[1 + Start[ch] + t] = 0

\* C8 witness: the evaluator has run on a rolled-forward trajectory that
\* moves, turns and changes its controls between the steps
C8_Witness ==
    /\ Evaluated /\ IsRollout(ev_coeffs, ev_vars)
    /\ Chan(ev_vars, "x", N - 1) # Chan(ev_vars, "x", 0)
    /\ Chan(ev_vars, "psi", N - 1) # Chan(ev_vars, "psi", 0)
    /\ Chan(ev_vars, "delta", 1) # Chan(ev_vars, "delta", 0)
    /\ Chan(ev_vars, "a", 1) # Chan(ev_vars, "a", 0)
    /\ ev_coeffs[3] # 0

\* C9: the objective in slot 0 is the sum of 1000*cte_t^2 + 1000*epsi_t^2
\* for t in [0, N), 10*(v_t - ref_v)^2 for t in [1, N), 3*delta_t^2 + 3*a_t^2
\* for t in [0, N-1) and 1000*(delta_{t+1} - delta_t)^2 + (a_{t+1} - a_t)^2
\* for t in [0, N-2), and nothing else; it is never negative.
C9_Objective ==
    Evaluated =>
        /\ fg[0] =
              SumRange(0, N - 1, [t \in 0..(N - 1) |->
                    1000 * Pow2(Chan(ev_vars, "cte", t))
                    + 1000 * Pow2(Chan(ev_vars, "epsi", t))])
              + SumRange(1, N - 1, [t \in 1..(N - 1) |->
                    10 * Pow2(Chan(ev_vars, "v", t) - ref_v)])
              + SumRange(0, N - 2, [t \in 0..(N - 2) |->
                    3 * Pow2(Chan(ev_vars, "delta", t)) + 3 * Pow2(Chan(ev_vars, "a", t))])
              + SumRange(0, N - 3, [t \in 0..(N - 3) |->
                    1000 * Pow2(Chan(ev_vars, "delta", t + 1) - Chan(ev_vars, "delta", t))
                    + 1 * Pow2(Chan(ev_vars, "a", t + 1) - Chan(ev_vars, "a", t))])
        /\ fg[0] >= 0

\* C9 witness: an evaluation in which every kind of term is nonzero
C9_Witness ==
    /\ Evaluated
    /\ Chan(ev_vars, "cte", N - 1) # 0 /\ Chan(ev_vars, "epsi", 0) # 0
    /\ Chan(ev_vars, "v", 0) # Chan(ev_vars, "v", 1)
    /\ Chan(ev_vars, "delta", 0) # 0 /\ Chan(ev_vars, "a", 0) # 0
    /\ Chan(ev_vars, "delta", 1) # Chan(ev_vars, "delta", 0)
    /\ Chan(ev_vars, "a", 1) # Chan(ev_vars, "a", 0)

\* the indices Solve reads or writes in the decision-sized arrays: the seed
\* and bound loops, and the copy loop over a solution of the size of vars
SolveIndices ==
    { VarsWrites(Origin)[k][1] : k \in DOMAIN VarsWrites(Origin) }
    \cup { VarsLowerWrites[k][1] : k \in DOMAIN VarsLowerWrites }
    \cup { VarsUpperWrites[k][1] : k \in DOMAIN VarsUpperWrites }
    \cup { RetLoop(ev_vars)[k] : k \in DOMAIN RetLoop(ev_vars) }

\* C10: with the contiguous layout and N >= 3, every decision-vector index
\* the evaluator reads and Solve reads or writes lies in
\* [0, N*6 + (N-1)*2); every access through a channel's start offset stays
\* inside that channel's slots (the t+1 of the rate terms and the t-1 of the
\* dynamics rows included); and each constraint row 1..N*6 of fg is assigned
\* exactly once per evaluation.
C10_IndexSafety ==
    (Evaluated /\ N >= 3) =>
        /\ \A r \in EvalRefs :
              /\ Idx(r) \in 0..(DecisionLength - 1)
              /\ Idx(r) \in DOMAIN ev_vars
              /\ r.k \in 0..(Slots[r.ch] - 1)
        /\ \A i \in SolveIndices : i \in 0..(DecisionLength - 1)
        /\ \A k \in DOMAIN DeltaRange : ChannelOf(DeltaRange[k]) = "delta"
        /\ \A k \in DOMAIN AccRange : ChannelOf(AccRange[k]) = "a"
        /\ \A k \in DOMAIN FreeRange : ChannelOf(FreeRange[k]) \notin {"delta", "a"}
        /\ \A j \in 1..(N * 6) : Len(WritesTo(FgWrites(ev_coeffs, ev_vars), j)) = 1
        /\ \A k \in DOMAIN FgWrites(ev_coeffs, ev_vars) :
              FgWrites(ev_coeffs, ev_vars)[k][1] \in DOMAIN fg
        /\ DOMAIN fg = 0..(N * 6)

\* C10 witness: an evaluation whose topmost accesses matter: the last
\* steering and acceleration slots differ from their predecessors and the
\* last constraint row is nonzero
C10_Witness ==
    /\ Evaluated /\ N >= 3
    /\ Chan(ev_vars, "delta", N - 2) # Chan(ev_vars, "delta", N - 3)
    /\ Chan(ev_vars, "a", N - 2) # Chan(ev_vars, "a", N - 3)
    /\ fg[N * 6] # 0

====
